---- MODULE Spec2Model ----
(***************************************************************************)
(* The user service of shellhub (api/services): UpdateDataUser and         *)
(* UpdatePasswordUser, run by concurrent request handlers against one      *)
(* user store, with the service's structured errors; and the firewall-rule *)
(* store contract exercised by api/store/mongo/firewall_test.go; and the   *)
(* namespaces module of the UI's Vuex store.                               *)
(***************************************************************************)
EXTENDS Integers, Sequences, FiniteSets, TLC

VARIABLES
    users,            \* the user collection: id -> [username, email, password]
    enforceUnique,    \* whether the collection carries unique indexes
    pc,               \* per request handler: where its service call stands
    call,             \* per handler: the arguments of the call in progress
    user,             \* per handler: *models.User after validator.FormatUser
    conflictFields,   \* per handler: local var conflictFields
    duplicatedValues, \* per handler: local var duplicatedValues
    ret,              \* per handler: what the call returned
    obs,              \* per handler: what each store call of this invocation answered
    rules,            \* the firewall-rule collection, in the store's order
    nextRule,         \* the next fresh firewall-rule id
    fwRet,            \* what the last firewall store call returned
    namespaces,       \* UI store: state.namespaces
    numberNamespaces, \* UI store: state.numberNamespaces
    nsLast            \* UI store: the mutation committed last, with its payload id

userVars == <<users, enforceUnique, pc, call, user, conflictFields, duplicatedValues, ret, obs>>
fwVars == <<rules, nextRule, fwRet>>
nsVars == <<namespaces, numberNamespaces, nsLast>>
vars == <<userVars, fwVars, nsVars>>

----------------------------------------------------------------------------
(* Bounds of the model. *)

MaxDeletes == 1
MaxRules == 3
MaxPage == 3
MaxNamespaces == 3

Procs == {1, 2}

----------------------------------------------------------------------------
(* pkg/errors, as the service uses it: an error is the chain of its links,  *)
(* outermost first; nil is the empty chain.                                 *)

Nil == <<>>

ErrLayer == "service"

ErrCodeNotFound == 1
ErrCodeDuplicated == 2
ErrCodeLimit == 3
ErrCodeInvalid == 4
ErrCodePayment == 5
ErrCodeStore == 6

New(message, layer, code) ==
    << [message |-> message, layer |-> layer, code |-> code, kind |-> "none", data |-> <<>>] >>

WithData(err, kind, data) ==
    IF err = Nil THEN Nil
    ELSE <<[Head(err) EXCEPT !.kind = kind, !.data = data]>> \o Tail(err)

Wrap(err, next) ==
    IF err = Nil THEN Nil ELSE err \o next

\* Identity of a link: the sentinel it was built from, whatever data it carries.
SameSentinel(a, b) ==
    a.message = b.message /\ a.layer = b.layer /\ a.code = b.code

Is(err, target) ==
    /\ target # Nil
    /\ \E i \in 1..Len(err) : SameSentinel(err[i], target[1])

ErrUserNotFound == New("user not found", ErrLayer, ErrCodeNotFound)
ErrUserInvalid == New("user invalid", ErrLayer, ErrCodeInvalid)
ErrUserDuplicated == New("user duplicated", ErrLayer, ErrCodeDuplicated)
ErrNamespaceNotFound == New("namespace not found", ErrLayer, ErrCodeNotFound)

NewErrNotFoundUnwrapped(err, id, next) == WithData(err, "ErrDataNotFound", <<id>>)

NewErrNotFound(err, id, next) == Wrap(WithData(err, "ErrDataNotFound", <<id>>), next)
NewErrInvalid(err, fields, next) == Wrap(WithData(err, "ErrDataInvalid", fields), next)
NewErrDuplicated(err, values, next) == Wrap(WithData(err, "ErrDataDuplicated", values), next)

NewErrUserNotFound(id, next) == NewErrNotFound(ErrUserNotFound, id, next)
NewErrUserInvalid(fields, next) == NewErrInvalid(ErrUserInvalid, fields, next)
NewErrUserDuplicated(values, next) == NewErrDuplicated(ErrUserDuplicated, values, next)

\* The store's own errors: the absence sentinel, and its other failure modes.
StoreErrNoDocuments == New("no documents", "store", 0)
StoreErrFault == New("store unavailable", "store", 0)
StoreErrDuplicateKey == New("duplicate key", "store", 0)

----------------------------------------------------------------------------
(* The validator package: field formats, normalisation, password hashing.  *)

IDs == {"1", "2"}
NoUser == "none"

InputUsernames == {"alice", "Bob", "carol", "x!"}
InputEmails == {"a@x.com", "b@x.com", "bad"}
InputPasswords == {"secret1", "secret2", "secret3", "abc"}

ValidUsernames == {"alice", "Bob", "carol"}
ValidEmails == {"a@x.com", "b@x.com"}

\* validator.ValidateStruct(user.UserData): the invalid fields, in struct order.
ValidateStruct(u) ==
    (IF u.username \in ValidUsernames THEN <<>> ELSE <<"username">>)
    \o (IF u.email \in ValidEmails THEN <<>> ELSE <<"email">>)

ToLower(s) == IF s = "Bob" THEN "bob" ELSE s

\* validator.FormatUser: lower-cases the username and the email.
FormatUser(u) == [username |-> ToLower(u.username), email |-> ToLower(u.email)]

ValidateFieldPassword(p) == p \in {"secret1", "secret2", "secret3"}

\* validator.HashPassword: deterministic, one-way, many-to-one onto digests.
HashPassword(p) ==
    CASE p = "secret1" -> "h1"
      [] p = "secret2" -> "h2"
      [] p = "secret3" -> "h1"
      [] OTHER -> "h0"

----------------------------------------------------------------------------
(* The user store (api/store): each call answers from the collection or    *)
(* fails; the set holds every answer the store can give.                    *)

Holders(us, field, value) == {u \in DOMAIN us : us[u][field] = value}

UserGetByID(us, id) ==
    (IF id \in DOMAIN us
        THEN {[user |-> id, err |-> Nil]}
        ELSE {[user |-> NoUser, err |-> StoreErrNoDocuments]})
    \cup {[user |-> NoUser, err |-> StoreErrFault]}

UserGetByField(us, field, value) ==
    (IF Holders(us, field, value) # {}
        THEN {[user |-> u, err |-> Nil] : u \in Holders(us, field, value)}
        ELSE {[user |-> NoUser, err |-> StoreErrNoDocuments]})
    \cup {[user |-> NoUser, err |-> StoreErrFault]}

UserGetByUsername(us, username) == UserGetByField(us, "username", username)
UserGetByEmail(us, email) == UserGetByField(us, "email", email)

\* A write that a unique index of the collection rejects.
BreaksUnique(us, id, u) ==
    \E o \in DOMAIN us \ {id} : us[o].username = u.username \/ us[o].email = u.email

UserUpdateData(us, unique, u, id) ==
    (IF id \notin DOMAIN us
        THEN {[users |-> us, err |-> StoreErrNoDocuments]}
        ELSE IF unique /\ BreaksUnique(us, id, u)
            THEN {[users |-> us, err |-> StoreErrDuplicateKey]}
            ELSE {[users |-> [us EXCEPT ![id].username = u.username, ![id].email = u.email],
                   err |-> Nil]})
    \cup {[users |-> us, err |-> StoreErrFault]}

UserUpdatePassword(us, password, id) ==
    (IF id \notin DOMAIN us
        THEN {[users |-> us, err |-> StoreErrNoDocuments]}
        ELSE {[users |-> [us EXCEPT ![id].password = password], err |-> Nil]})
    \cup {[users |-> us, err |-> StoreErrFault]}

----------------------------------------------------------------------------
(* Request handlers, each running one service call. Each action is the     *)
(* code from one store call up to the next one (or to the return).         *)

NoCall == [op |-> "none", id |-> NoUser, username |-> "", email |-> "",
           currentPassword |-> "", newPassword |-> ""]
NoModel == [username |-> "", email |-> ""]
NoRet == [fields |-> <<>>, err |-> Nil]
NoObs == [exist |-> "pending", byUsername |-> "pending", byEmail |-> "pending",
          persist |-> "pending"]

\* How a store answer reads to the invocation that asked on behalf of `id`.
Answer(r, id) ==
    IF r.err = Nil THEN (IF r.user = id THEN "self" ELSE "other")
    ELSE IF r.err = StoreErrNoDocuments THEN "absent"
    ELSE IF r.err = StoreErrDuplicateKey THEN "duplicate"
    ELSE "fault"

Finish(p, fields, err) ==
    /\ ret' = [ret EXCEPT ![p] = [fields |-> fields, err |-> err]]
    /\ pc' = [pc EXCEPT ![p] = "done"]

IsConflictAnyHit(existentUser, id) ==
    existentUser # NoUser

IsConflictNever(existentUser, id) ==
    FALSE

\* The test of lines 187 and 193: a hit that is another user's record.
IsConflict(existentUser, id) ==
    existentUser # NoUser /\ existentUser # id

\* UpdateDataUser, lines 173-182: existence check, validation, normalisation.
UpdateDataUser_Exist(p, u, id) ==
    /\ pc[p] = "idle"
    /\ call' = [call EXCEPT ![p] = [NoCall EXCEPT !.op = "data", !.id = id,
                                       !.username = u.username, !.email = u.email]]
    /\ \E r \in UserGetByID(users, id) :
        /\ obs' = [obs EXCEPT ![p] = [NoObs EXCEPT !.exist = Answer(r, id)]]
        /\ IF r.err # Nil
              THEN /\ Finish(p, <<>>, NewErrUserNotFound(id, r.err))
                   /\ UNCHANGED user
              ELSE IF ValidateStruct(u) # <<>>
                  THEN /\ Finish(p, ValidateStruct(u), NewErrUserInvalid(ValidateStruct(u), Nil))
                       /\ UNCHANGED user
                  ELSE /\ user' = [user EXCEPT ![p] = FormatUser(u)]
                       /\ pc' = [pc EXCEPT ![p] = "UserGetByUsername"]
                       /\ UNCHANGED ret
    /\ UNCHANGED <<users, enforceUnique, conflictFields, duplicatedValues>>
    /\ UNCHANGED <<fwVars, nsVars>>

\* UpdateDataUser, lines 184-190: the lookup by username (its error is dropped).
UpdateDataUser_ByUsername(p) ==
    /\ pc[p] = "UserGetByUsername"
    /\ \E r \in UserGetByUsername(users, user[p].username) :
        /\ obs' = [obs EXCEPT ![p].byUsername = Answer(r, call[p].id)]
        /\ IF IsConflict(r.user, call[p].id)
              THEN /\ conflictFields' = [conflictFields EXCEPT ![p] = Append(@, "username")]
                   /\ duplicatedValues' = [duplicatedValues EXCEPT ![p] = Append(@, user[p].username)]
              ELSE UNCHANGED <<conflictFields, duplicatedValues>>
    /\ pc' = [pc EXCEPT ![p] = "UserGetByEmail"]
    /\ UNCHANGED <<users, enforceUnique, call, user, ret>>
    /\ UNCHANGED <<fwVars, nsVars>>

HasConflictBoth(fields) == Len(fields) > 1

\* Lines 198-200: what the conflict lists decide.
HasConflict(fields) == Len(fields) > 0

\* The email step stopping at a conflict already found, without its own lookup.
UpdateDataUser_ByEmailFirstWins(p) ==
    /\ pc[p] = "UserGetByEmail"
    /\ IF HasConflict(conflictFields[p])
          THEN /\ Finish(p, conflictFields[p], NewErrUserDuplicated(duplicatedValues[p], Nil))
               /\ UNCHANGED <<obs, conflictFields, duplicatedValues>>
          ELSE \E r \in UserGetByEmail(users, user[p].email) :
               LET hit == IsConflict(r.user, call[p].id)
                   cf == IF hit THEN <<"email">> ELSE <<>>
                   dv == IF hit THEN <<user[p].email>> ELSE <<>>
               IN  /\ obs' = [obs EXCEPT ![p].byEmail = Answer(r, call[p].id)]
                   /\ conflictFields' = [conflictFields EXCEPT ![p] = cf]
                   /\ duplicatedValues' = [duplicatedValues EXCEPT ![p] = dv]
                   /\ IF HasConflict(cf)
                         THEN Finish(p, cf, NewErrUserDuplicated(dv, Nil))
                         ELSE /\ pc' = [pc EXCEPT ![p] = "UserUpdateData"]
                              /\ UNCHANGED ret
    /\ UNCHANGED <<users, enforceUnique, call, user>>
    /\ UNCHANGED <<fwVars, nsVars>>

\* UpdateDataUser, lines 192-200: the lookup by email, then the conflict result.
UpdateDataUser_ByEmail(p) ==
    /\ pc[p] = "UserGetByEmail"
    /\ \E r \in UserGetByEmail(users, user[p].email) :
        LET hit == IsConflict(r.user, call[p].id)
            cf == IF hit THEN Append(conflictFields[p], "email") ELSE conflictFields[p]
            dv == IF hit THEN Append(duplicatedValues[p], user[p].email) ELSE duplicatedValues[p]
        IN  /\ obs' = [obs EXCEPT ![p].byEmail = Answer(r, call[p].id)]
            /\ conflictFields' = [conflictFields EXCEPT ![p] = cf]
            /\ duplicatedValues' = [duplicatedValues EXCEPT ![p] = dv]
            /\ IF HasConflict(cf)
                  THEN Finish(p, cf, NewErrUserDuplicated(dv, Nil))
                  ELSE /\ pc' = [pc EXCEPT ![p] = "UserUpdateData"]
                       /\ UNCHANGED ret
    /\ UNCHANGED <<users, enforceUnique, call, user>>
    /\ UNCHANGED <<fwVars, nsVars>>

\* UpdateDataUser, line 202: the write; its error is returned as the store gave it.
UpdateDataUser_Persist(p) ==
    /\ pc[p] = "UserUpdateData"
    /\ \E w \in UserUpdateData(users, enforceUnique, user[p], call[p].id) :
        /\ users' = w.users
        /\ obs' = [obs EXCEPT ![p].persist = IF w.err = Nil THEN "ok" ELSE Answer(w, call[p].id)]
        /\ Finish(p, <<>>, w.err)
    /\ UNCHANGED <<enforceUnique, call, user, conflictFields, duplicatedValues>>
    /\ UNCHANGED <<fwVars, nsVars>>

SamePasswordRaw(currentPassword, newPassword) ==
    currentPassword = newPassword

\* Lines 216-218: the new password must differ from the current one, as hashed.
SamePassword(currentPassword, newPassword) ==
    HashPassword(currentPassword) = HashPassword(newPassword)

PasswordUnchecked(stored, currentPassword) ==
    TRUE

\* Lines 225-227: the stored password is the hash of the supplied current one.
PasswordMatches(stored, currentPassword) ==
    stored = HashPassword(currentPassword)

\* UpdatePasswordUser, lines 205-227: everything up to and including UserGetByID.
UpdatePasswordUser_Check(p, currentPassword, newPassword, id) ==
    /\ pc[p] = "idle"
    /\ call' = [call EXCEPT ![p] = [NoCall EXCEPT !.op = "password", !.id = id,
                                       !.currentPassword = currentPassword,
                                       !.newPassword = newPassword]]
    /\ IF ~ValidateFieldPassword(currentPassword)
          THEN /\ Finish(p, <<>>, NewErrUserInvalid(<<"current_password">>, Nil))
               /\ obs' = [obs EXCEPT ![p] = NoObs]
          ELSE IF ~ValidateFieldPassword(newPassword)
          THEN /\ Finish(p, <<>>, NewErrUserInvalid(<<"new_password">>, Nil))
               /\ obs' = [obs EXCEPT ![p] = NoObs]
          ELSE IF SamePassword(currentPassword, newPassword)
          THEN /\ Finish(p, <<>>, NewErrUserDuplicated(<<"current_password", "new_password">>, Nil))
               /\ obs' = [obs EXCEPT ![p] = NoObs]
          ELSE \E r \in UserGetByID(users, id) :
               /\ obs' = [obs EXCEPT ![p] = [NoObs EXCEPT !.exist = Answer(r, id)]]
               /\ IF r.user = NoUser
                     THEN Finish(p, <<>>, NewErrUserNotFound(id, r.err))
                     ELSE IF ~PasswordMatches(users[r.user].password, currentPassword)
                         THEN Finish(p, <<>>, NewErrUserInvalid(<<"current_password">>, Nil))
                         ELSE /\ pc' = [pc EXCEPT ![p] = "UserUpdatePassword"]
                              /\ UNCHANGED ret
    /\ UNCHANGED <<users, enforceUnique, user, conflictFields, duplicatedValues>>
    /\ UNCHANGED <<fwVars, nsVars>>

\* UpdatePasswordUser, line 229: the write of the hashed new password.
UpdatePasswordUser_Persist(p) ==
    /\ pc[p] = "UserUpdatePassword"
    /\ \E w \in UserUpdatePassword(users, HashPassword(call[p].newPassword), call[p].id) :
        /\ users' = w.users
        /\ obs' = [obs EXCEPT ![p].persist = IF w.err = Nil THEN "ok" ELSE Answer(w, call[p].id)]
        /\ Finish(p, <<>>, w.err)
    /\ UNCHANGED <<enforceUnique, call, user, conflictFields, duplicatedValues>>
    /\ UNCHANGED <<fwVars, nsVars>>

\* Another path of the API deletes a user (the store's UserDelete).
UserDelete(id) ==
    /\ id \in DOMAIN users
    /\ Cardinality(IDs \ DOMAIN users) < MaxDeletes
    /\ users' = [u \in DOMAIN users \ {id} |-> users[u]]
    /\ UNCHANGED <<enforceUnique, pc, call, user, conflictFields, duplicatedValues, ret, obs>>
    /\ UNCHANGED <<fwVars, nsVars>>

InitUsers ==
    /\ users = [u \in IDs |-> IF u = "1"
                   THEN [username |-> "alice", email |-> "a@x.com", password |-> HashPassword("secret1")]
                   ELSE [username |-> "bob", email |-> "b@x.com", password |-> HashPassword("secret2")]]
    /\ enforceUnique \in BOOLEAN
    /\ pc = [p \in Procs |-> "idle"]
    /\ call = [p \in Procs |-> NoCall]
    /\ user = [p \in Procs |-> NoModel]
    /\ conflictFields = [p \in Procs |-> <<>>]
    /\ duplicatedValues = [p \in Procs |-> <<>>]
    /\ ret = [p \in Procs |-> NoRet]
    /\ obs = [p \in Procs |-> NoObs]

----------------------------------------------------------------------------
(* The firewall-rule store (api/store/mongo), by the contract its tests    *)
(* hold it to: rules are kept in the store's order under fresh ids.        *)

RuleIDs == 1..MaxRules
RuleFields == [priority : {1, 2}, action : {"allow", "deny"}]
Pages == (0 - 1)..MaxPage

NoFwRet == [op |-> "none", id |-> 0, page |-> 0, perPage |-> 0,
            items |-> <<>>, count |-> 0, rule |-> <<>>, err |-> Nil]

RuleIndex(rs, id) == {i \in 1..Len(rs) : rs[i].id = id}

\* The aggregation stages $skip and $limit.
Skip(s, n) == IF n >= Len(s) THEN <<>> ELSE SubSeq(s, n + 1, Len(s))
Limit(s, n) == IF n >= Len(s) THEN s ELSE SubSeq(s, 1, n)

PageSkipFromPage(page, perPage) == page * perPage

\* The window of a paginator.Query: how many records to skip.
PageSkip(page, perPage) == (page - 1) * perPage

FirewallRuleList(rs, page, perPage) ==
    [items |-> IF page < 1 \/ perPage < 1
                  THEN rs
                  ELSE Limit(Skip(rs, PageSkip(page, perPage)), perPage),
     count |-> Len(rs),
     err |-> Nil]

FirewallRuleGet(rs, id) ==
    IF RuleIndex(rs, id) = {}
        THEN [rule |-> <<>>, err |-> StoreErrNoDocuments]
        ELSE [rule |-> <<rs[CHOOSE i \in RuleIndex(rs, id) : TRUE]>>, err |-> Nil]

FirewallRuleUpsert(rs, id, patch) ==
    LET updated == [id |-> id, priority |-> patch.priority, action |-> patch.action]
    IN  IF RuleIndex(rs, id) = {}
            THEN [rules |-> Append(rs, updated), rule |-> <<updated>>, err |-> Nil]
            ELSE [rules |-> [rs EXCEPT ![CHOOSE j \in RuleIndex(rs, id) : TRUE] = updated],
                  rule |-> <<updated>>, err |-> Nil]

FirewallRuleUpdate(rs, id, patch) ==
    IF RuleIndex(rs, id) = {}
        THEN [rules |-> rs, rule |-> <<>>, err |-> StoreErrNoDocuments]
        ELSE LET i == CHOOSE j \in RuleIndex(rs, id) : TRUE
                 updated == [id |-> id, priority |-> patch.priority, action |-> patch.action]
             IN  [rules |-> [rs EXCEPT ![i] = updated], rule |-> <<updated>>, err |-> Nil]

FirewallRuleDelete(rs, id) ==
    IF RuleIndex(rs, id) = {}
        THEN [rules |-> rs, err |-> StoreErrNoDocuments]
        ELSE LET i == CHOOSE j \in RuleIndex(rs, id) : TRUE
             IN  [rules |-> SubSeq(rs, 1, i - 1) \o SubSeq(rs, i + 1, Len(rs)), err |-> Nil]

\* The write path that creates rules (the fixtures of the tests).
Create(fields) ==
    /\ nextRule <= MaxRules
    /\ rules' = Append(rules, [id |-> nextRule, priority |-> fields.priority, action |-> fields.action])
    /\ nextRule' = nextRule + 1
    /\ fwRet' = [NoFwRet EXCEPT !.op = "create", !.id = nextRule]
    /\ UNCHANGED <<userVars, nsVars>>

List(page, perPage) ==
    /\ LET r == FirewallRuleList(rules, page, perPage)
       IN  fwRet' = [NoFwRet EXCEPT !.op = "list", !.page = page, !.perPage = perPage,
                                    !.items = r.items, !.count = r.count, !.err = r.err]
    /\ UNCHANGED <<rules, nextRule>>
    /\ UNCHANGED <<userVars, nsVars>>

Get(id) ==
    /\ LET r == FirewallRuleGet(rules, id)
       IN  fwRet' = [NoFwRet EXCEPT !.op = "get", !.id = id, !.rule = r.rule, !.err = r.err]
    /\ UNCHANGED <<rules, nextRule>>
    /\ UNCHANGED <<userVars, nsVars>>

Update(id, patch) ==
    /\ LET r == FirewallRuleUpdate(rules, id, patch)
       IN  /\ rules' = r.rules
           /\ fwRet' = [NoFwRet EXCEPT !.op = "update", !.id = id, !.rule = r.rule, !.err = r.err]
    /\ UNCHANGED nextRule
    /\ UNCHANGED <<userVars, nsVars>>

Delete(id) ==
    /\ LET r == FirewallRuleDelete(rules, id)
       IN  /\ rules' = r.rules
           /\ fwRet' = [NoFwRet EXCEPT !.op = "delete", !.id = id, !.err = r.err]
    /\ UNCHANGED nextRule
    /\ UNCHANGED <<userVars, nsVars>>

InitFirewall ==
    /\ rules = <<>>
    /\ nextRule = 1
    /\ fwRet = NoFwRet

----------------------------------------------------------------------------
(* The namespaces module of the UI store (new-ui/src/store/modules):       *)
(* its list of namespaces and the mutations that change it.                *)

TenantIDs == {"t1", "t2", "t3"}
NamespaceNames == {"dev", "ops"}
Namespaces == [tenant_id : TenantIDs, name : NamespaceNames]

\* The lists an API response can carry: no tenant twice.
NamespaceLists ==
    {l \in UNION {[1..n -> Namespaces] : n \in 0..MaxNamespaces} :
        \A i, j \in 1..Len(l) : i # j => l[i].tenant_id # l[j].tenant_id}

TotalCountHeaders == {"0", "3", "12"}

\* parseInt(s, 10) on the x-total-count header.
ParseInt(s) ==
    CASE s = "0" -> 0
      [] s = "3" -> 3
      [] s = "12" -> 12

\* Array.prototype.findIndex: the 0-based index of the first match, or -1.
FindIndex(l, id) ==
    IF \E i \in 1..Len(l) : l[i].tenant_id = id
        THEN (CHOOSE i \in 1..Len(l) :
                /\ l[i].tenant_id = id
                /\ \A j \in 1..(i - 1) : l[j].tenant_id # id) - 1
        ELSE 0 - 1

\* Array.prototype.splice(start, deleteCount): a negative start counts from the end.
Splice(l, start, deleteCount) ==
    LET len == Len(l)
        from == IF start < 0
                   THEN (IF len + start > 0 THEN len + start ELSE 0)
                   ELSE (IF start < len THEN start ELSE len)
        n == IF deleteCount < 0 THEN 0
             ELSE IF deleteCount < len - from THEN deleteCount ELSE len - from
    IN  SubSeq(l, 1, from) \o SubSeq(l, from + n + 1, len)

setNamespaces(data, total) ==
    /\ namespaces' = data
    /\ numberNamespaces' = ParseInt(total)
    /\ nsLast' = [op |-> "setNamespaces", id |-> ""]
    /\ UNCHANGED <<userVars, fwVars>>

removeNamespace(id) ==
    /\ namespaces' = Splice(namespaces, FindIndex(namespaces, id), 1)
    /\ nsLast' = [op |-> "removeNamespace", id |-> id]
    /\ UNCHANGED numberNamespaces
    /\ UNCHANGED <<userVars, fwVars>>

clearNamespaceList ==
    /\ namespaces' = <<>>
    /\ numberNamespaces' = 0
    /\ nsLast' = [op |-> "clearNamespaceList", id |-> ""]
    /\ UNCHANGED <<userVars, fwVars>>

InitNamespaces ==
    /\ namespaces = <<>>
    /\ numberNamespaces = 0
    /\ nsLast = [op |-> "none", id |-> ""]

Init == InitUsers /\ InitFirewall /\ InitNamespaces

Next ==
    \/ \E p \in Procs, id \in IDs, un \in InputUsernames, em \in InputEmails :
          UpdateDataUser_Exist(p, [username |-> un, email |-> em], id)
    \/ \E p \in Procs : UpdateDataUser_ByUsername(p)
    \/ \E p \in Procs : UpdateDataUser_ByEmail(p)
    \/ \E p \in Procs : UpdateDataUser_Persist(p)
    \/ \E p \in Procs, id \in IDs, cur \in InputPasswords, new \in InputPasswords :
          UpdatePasswordUser_Check(p, cur, new, id)
    \/ \E p \in Procs : UpdatePasswordUser_Persist(p)
    \/ \E id \in IDs : UserDelete(id)

Spec == Init /\ [][Next]_vars

NextFirewall ==
    \/ \E f \in RuleFields : Create(f)
    \/ \E page \in Pages, perPage \in Pages : List(page, perPage)
    \/ \E id \in RuleIDs : Get(id)
    \/ \E id \in RuleIDs, f \in RuleFields : Update(id, f)
    \/ \E id \in RuleIDs : Delete(id)

InitStore == InitUsers /\ enforceUnique /\ InitFirewall /\ InitNamespaces

SpecFirewall == InitStore /\ [][NextFirewall]_vars

NextNamespaces ==
    \/ \E data \in NamespaceLists, total \in TotalCountHeaders : setNamespaces(data, total)
    \/ \E id \in TenantIDs : removeNamespace(id)
    \/ clearNamespaceList

SpecNamespaces == InitStore /\ [][NextNamespaces]_vars

----------------------------------------------------------------------------
(* Properties of the user service.                                          *)

InSeq(x, s) == \E i \in 1..Len(s) : s[i] = x

IsData(p) == call[p].op = "data"
IsPassword(p) == call[p].op = "password"

\* The values a Duplicated error must list: every colliding value, username first.
Colliding(p) ==
    (IF obs[p].byUsername = "other" THEN <<user[p].username>> ELSE <<>>)
    \o (IF obs[p].byEmail = "other" THEN <<user[p].email>> ELSE <<>>)

C1_Rejected(p) ==
    (/\ IsData(p)
     /\ pc[p] = "done"
     /\ obs[p].byUsername = "other" \/ obs[p].byEmail = "other")
    => /\ Is(ret[p].err, ErrUserDuplicated)
       /\ Head(ret[p].err).code = ErrCodeDuplicated
       /\ Head(ret[p].err).kind = "ErrDataDuplicated"
       /\ Head(ret[p].err).data = Colliding(p)
       /\ obs[p].persist = "pending"

C1_StoreUntouched(p) ==
    (/\ pc[p] # "done"
     /\ pc'[p] = "done"
     /\ IsData(p)'
     /\ Is(ret'[p].err, ErrUserDuplicated))
    => users' = users

\* A value held by another id and not by the candidate's own record.
HeldByOther(p, field) ==
    /\ \E o \in DOMAIN users \ {call[p].id} : users[o][field] = user[p][field]
    /\ call[p].id \in DOMAIN users => users[call[p].id][field] # user[p][field]

C1_LookupSeesHolder(p) ==
    /\ (/\ pc[p] = "UserGetByUsername" /\ pc'[p] # pc[p]
        /\ HeldByOther(p, "username")
        /\ obs'[p].byUsername # "fault")
       => obs'[p].byUsername = "other" /\ InSeq("username", conflictFields'[p])
    /\ (/\ pc[p] = "UserGetByEmail" /\ pc'[p] # pc[p]
        /\ HeldByOther(p, "email")
        /\ obs'[p].byEmail # "fault")
       => obs'[p].byEmail = "other" /\ pc'[p] = "done"

\* C1: an UpdateDataUser with valid fields whose normalised username or email is
\* held by a user with a different id (and the lookup is answered) returns
\* ErrUserDuplicated listing exactly the colliding values, never issues the
\* store write, and leaves the store as it was.
C1_DuplicatedLeavesStore ==
    /\ [](\A p \in Procs : C1_Rejected(p))
    /\ [][\A p \in Procs : C1_StoreUntouched(p) /\ C1_LookupSeesHolder(p)]_vars

C1_Witness ==
    \E p \in Procs :
        /\ IsData(p) /\ pc[p] = "done"
        /\ call[p].id = "1" /\ call[p].username = "Bob"
        /\ obs[p].byUsername = "other"
        /\ Head(ret[p].err).data = <<"bob">>
        /\ users["1"].username = "alice"

\* C2: when both lookups of an UpdateDataUser answer with the candidate's own
\* record, no conflict is recorded, the call reaches the store write, and it
\* returns no fields and no error when that write succeeds; a lookup that hits
\* the candidate's own id is never recorded as a conflict.
C2_NoSelfConflict ==
    \A p \in Procs :
        /\ (obs[p].byUsername = "self" => ~InSeq("username", conflictFields[p]))
        /\ (obs[p].byEmail = "self" => ~InSeq("email", conflictFields[p]))
        /\ (IsData(p) /\ obs[p].byUsername = "self" /\ obs[p].byEmail = "self")
            => /\ conflictFields[p] = <<>>
               /\ pc[p] \in {"UserUpdateData", "done"}
               /\ (pc[p] = "done" => obs[p].persist # "pending")
               /\ (obs[p].persist = "ok" => ret[p] = NoRet)

C2_Witness ==
    \E p \in Procs :
        /\ IsData(p) /\ pc[p] = "done"
        /\ obs[p].byUsername = "self" /\ obs[p].byEmail = "self"
        /\ obs[p].persist = "ok"
        /\ ret[p].err = Nil

C3_Check(p) ==
    (pc[p] = "idle" /\ IsPassword(p)')
    => LET c == call'[p] IN
       /\ (pc'[p] = "UserUpdatePassword")
            => /\ c.id \in DOMAIN users
               /\ users[c.id].password = HashPassword(c.currentPassword)
       /\ (/\ ValidateFieldPassword(c.currentPassword)
           /\ ValidateFieldPassword(c.newPassword)
           /\ HashPassword(c.currentPassword) # HashPassword(c.newPassword)
           /\ c.id \in DOMAIN users
           /\ obs'[p].exist = "self"
           /\ users[c.id].password # HashPassword(c.currentPassword))
            => /\ pc'[p] = "done"
               /\ ret'[p].err = NewErrUserInvalid(<<"current_password">>, Nil)
               /\ users' = users

C3_Write(p) ==
    (IsPassword(p) /\ users' # users /\ pc'[p] = "done" /\ pc[p] # "done")
    => /\ pc[p] = "UserUpdatePassword"
       /\ users' = [users EXCEPT ![call[p].id].password = HashPassword(call[p].newPassword)]

\* C3: UpdatePasswordUser goes on to write only when the stored password equals
\* the hash of the supplied current password, and what it writes is the hash of
\* the new password; when they differ it fails with Invalid naming
\* current_password and the store keeps the stored password.
C3_WriteOnlyOnMatch ==
    [][\A p \in Procs : C3_Check(p) /\ C3_Write(p)]_vars

C3_Witness ==
    \E p, q \in Procs :
        /\ IsPassword(p) /\ obs[p].persist = "ok"
        /\ call[p].id \in DOMAIN users
        /\ users[call[p].id].password = HashPassword(call[p].newPassword)
        /\ IsPassword(q) /\ obs[q] = [NoObs EXCEPT !.exist = "self"]
        /\ pc[q] = "done"
        /\ ret[q].err = NewErrUserInvalid(<<"current_password">>, Nil)

C4_Duplicated(p) ==
    (/\ IsPassword(p)
     /\ ValidateFieldPassword(call[p].currentPassword)
     /\ ValidateFieldPassword(call[p].newPassword)
     /\ HashPassword(call[p].currentPassword) = HashPassword(call[p].newPassword))
    => /\ pc[p] = "done"
       /\ Is(ret[p].err, ErrUserDuplicated)
       /\ Head(ret[p].err).code = ErrCodeDuplicated
       /\ Head(ret[p].err).data = <<"current_password", "new_password">>
       /\ obs[p] = NoObs

C4_StoreUntouched(p) ==
    (/\ pc[p] = "idle"
     /\ IsPassword(p)'
     /\ HashPassword(call'[p].currentPassword) = HashPassword(call'[p].newPassword))
    => users' = users

\* C4: an UpdatePasswordUser whose format-valid current and new passwords hash to
\* the same value fails with ErrUserDuplicated carrying exactly
\* [current_password, new_password]; no store call is made and the store is
\* unchanged, whatever it holds.
C4_SameHashRejected ==
    /\ [](\A p \in Procs : C4_Duplicated(p))
    /\ [][\A p \in Procs : C4_StoreUntouched(p)]_vars

C4_Witness ==
    \E p \in Procs :
        /\ IsPassword(p) /\ pc[p] = "done"
        /\ call[p].currentPassword = "secret1" /\ call[p].newPassword = "secret3"
        /\ Head(ret[p].err).data = <<"current_password", "new_password">>
        /\ DOMAIN users # IDs

\* C5: an UpdateDataUser for an id the store answers as absent fails at the
\* existence check with ErrDataNotFound{id}; the error is ErrUserNotFound and is
\* the store's absence sentinel, and is no unrelated sentinel; validation, the
\* conflict lookups and the write are not performed.
C5_NotFoundWraps ==
    \A p \in Procs :
        (IsData(p) /\ obs[p].exist = "absent")
        => /\ pc[p] = "done"
           /\ Head(ret[p].err).kind = "ErrDataNotFound"
           /\ Head(ret[p].err).data = <<call[p].id>>
           /\ Is(ret[p].err, ErrUserNotFound)
           /\ Is(ret[p].err, StoreErrNoDocuments)
           /\ ~Is(ret[p].err, ErrNamespaceNotFound)
           /\ ~Is(ret[p].err, ErrUserInvalid)
           /\ ~Is(ret[p].err, StoreErrFault)
           /\ ret[p].fields = <<>>
           /\ obs[p] = [NoObs EXCEPT !.exist = "absent"]
           /\ conflictFields[p] = <<>>

C5_Witness ==
    \E p \in Procs :
        /\ IsData(p) /\ obs[p].exist = "absent"
        /\ ValidateStruct(call[p]) # <<>>
        /\ call[p].id \notin DOMAIN users

----------------------------------------------------------------------------
(* Properties of the firewall-rule store.                                   *)

C6_Step ==
    (fwRet'.op \in {"get", "update", "delete"} /\ RuleIndex(rules, fwRet'.id) = {})
    => /\ fwRet'.err = StoreErrNoDocuments
       /\ fwRet'.rule = <<>>
       /\ rules' = rules

\* C6: Get, Update and Delete of a firewall rule under an id the store does not
\* hold (never created, or deleted) fail with store.ErrNoDocuments, return no
\* rule, and leave the stored rules and their fields as they were.
C6_AbsentIdFails == [][C6_Step]_vars

C6_Witness ==
    /\ fwRet.op \in {"update", "delete"}
    /\ fwRet.err = StoreErrNoDocuments
    /\ fwRet.id < nextRule
    /\ Len(rules) > 0
    /\ \E i \in 1..Len(rules) : rules[i].id > fwRet.id

Min(a, b) == IF a < b THEN a ELSE b
Max(a, b) == IF a > b THEN a ELSE b

\* C7: List never fails and counts every stored rule; with page < 1 or
\* perPage < 1 it returns the whole collection in the store's order, otherwise
\* exactly the records at positions (page-1)*perPage + 1 .. (page-1)*perPage +
\* perPage of that order (none when the window lies past the end).
C7_ListWindow ==
    fwRet.op = "list" =>
        LET skip == (fwRet.page - 1) * fwRet.perPage IN
        /\ fwRet.err = Nil
        /\ fwRet.count = Len(rules)
        /\ IF fwRet.page < 1 \/ fwRet.perPage < 1
              THEN /\ Len(fwRet.items) = fwRet.count
                   /\ fwRet.items = rules
              ELSE /\ Len(fwRet.items) = Max(0, Min(fwRet.perPage, Len(rules) - skip))
                   /\ \A i \in 1..Len(fwRet.items) : fwRet.items[i] = rules[skip + i]

C7_Witness ==
    /\ fwRet.op = "list"
    /\ fwRet.page = 2 /\ fwRet.perPage = 2
    /\ Len(rules) = 3
    /\ fwRet.items = <<rules[3]>>
    /\ fwRet.count = 3

----------------------------------------------------------------------------
(* Properties of the user service, continued.                               *)

\* C8: an UpdatePasswordUser whose current and new passwords are both
\* format-invalid returns an Invalid error naming current_password and
\* new_password.
C8_BothFieldsNamed ==
    \A p \in Procs :
        (/\ IsPassword(p) /\ pc[p] = "done"
         /\ ~ValidateFieldPassword(call[p].currentPassword)
         /\ ~ValidateFieldPassword(call[p].newPassword))
        => /\ Is(ret[p].err, ErrUserInvalid)
           /\ Head(ret[p].err).data = <<"current_password", "new_password">>

SharedUsername ==
    \E a, b \in DOMAIN users : a # b /\ users[a].username = users[b].username

Wrote(p) == IsData(p) /\ obs[p].persist = "ok"

\* C9: two ids come to share a username only in a store without a uniqueness
\* constraint, and only through writers whose own conflict check had passed:
\* no UpdateDataUser that saw another holder ever writes. Two concurrent calls
\* for different users that both look the new name up before either writes both
\* persist it (the witness).
C9_RaceOnlyPastTheCheck ==
    /\ SharedUsername => ~enforceUnique
    /\ \A p \in Procs : Wrote(p) => obs[p].byUsername # "other" /\ obs[p].byEmail # "other"

C9_Witness ==
    /\ ~enforceUnique
    /\ Wrote(1) /\ Wrote(2)
    /\ call[1].id # call[2].id
    /\ obs[1].byUsername = "absent" /\ obs[2].byUsername = "absent"
    /\ user[1].username = "carol" /\ user[2].username = "carol"
    /\ users[call[1].id].username = "carol"
    /\ users[call[2].id].username = "carol"

\* C10: every error a service call returns is a service-layer error: a store
\* write that fails with the absence sentinel comes back as ErrUserNotFound
\* wrapping it, any other write failure as a wrapped store failure.
C10_ServiceErrorsOnly ==
    \A p \in Procs :
        (pc[p] = "done" /\ ret[p].err # Nil)
        => /\ Head(ret[p].err).layer = ErrLayer
           /\ (obs[p].persist = "absent"
                => Is(ret[p].err, ErrUserNotFound) /\ Is(ret[p].err, StoreErrNoDocuments))
           /\ (obs[p].persist \in {"fault", "duplicate"}
                => Head(ret[p].err).code = ErrCodeStore /\ Len(ret[p].err) > 1)


\* C11: an UpdateDataUser one of whose conflict lookups fails with a store error
\* other than the absence sentinel does not go on to the write: it fails with a
\* store-failure error wrapping the cause.
C11_LookupFailureStops ==
    \A p \in Procs :
        (IsData(p) /\ (obs[p].byUsername = "fault" \/ obs[p].byEmail = "fault"))
        => /\ pc[p] # "UserUpdateData"
           /\ obs[p].persist = "pending"
           /\ (pc[p] = "done"
                => /\ Head(ret[p].err).code = ErrCodeStore
                   /\ Is(ret[p].err, StoreErrFault))

\* The keys a conflict result must name, username first.
ConflictKeys(p) ==
    (IF obs[p].byUsername = "other" THEN <<"username">> ELSE <<>>)
    \o (IF obs[p].byEmail = "other" THEN <<"email">> ELSE <<>>)

C12_Result(p) ==
    (IsData(p) /\ pc[p] = "done" /\ ConflictKeys(p) # <<>>)
    => /\ ret[p].fields = ConflictKeys(p)
       /\ Head(ret[p].err).data = Colliding(p)
       /\ Len(ret[p].fields) = Len(Head(ret[p].err).data)

C12_BothLookups(p) ==
    (/\ pc[p] = "UserGetByEmail" /\ pc'[p] = "done"
     /\ InSeq("username", conflictFields[p])
     /\ HeldByOther(p, "email")
     /\ obs'[p].byEmail # "fault")
    => /\ ret'[p].fields = <<"username", "email">>
       /\ Head(ret'[p].err).data = <<user[p].username, user[p].email>>

\* C12: when the proposed username and the proposed email each collide with
\* another user, UpdateDataUser returns the fields [username, email] and the
\* Duplicated values [the username, the email], two lists of one length in the
\* order username then email; when one key collides, only that key and its
\* value are listed.
C12_AllConflictsReported ==
    /\ [](\A p \in Procs : C12_Result(p))
    /\ [][\A p \in Procs : C12_BothLookups(p)]_vars

C12_Witness ==
    \E p \in Procs :
        /\ IsData(p) /\ pc[p] = "done"
        /\ obs[p].byUsername = "other" /\ obs[p].byEmail = "other"
        /\ ret[p].fields = <<"username", "email">>
        /\ Head(ret[p].err).data = <<"bob", "b@x.com">>


----------------------------------------------------------------------------
(* Properties of the UI's namespaces store.                                 *)

\* The list without the entries of a tenant.
Without(l, id) ==
    LET keep(e) == e.tenant_id # id IN SelectSeq(l, keep)

\* C13: removeNamespace removes exactly the entry whose tenant_id is the given
\* id and nothing else; when no entry has that tenant_id the list is unchanged.
C13_RemovesOnlyThatEntry ==
    [][nsLast'.op = "removeNamespace" => namespaces' = Without(namespaces, nsLast'.id)]_vars

====
